---------------------------- MODULE Spec2Model ----------------------------
(***************************************************************************)
(* Model of the Garmin sync scripts and of the raw sensor-stream tool:     *)
(*   scripts/sync-garmin-mcp.py           extract_duration,                *)
(*                                        sync_activities_by_date_range,   *)
(*                                        __main__                         *)
(*   scripts/sync-garmin-wellness-mcp.py  sync_wellness_by_date_range,     *)
(*                                        __main__                         *)
(*   garmin_connect_mcp/tools/raw_data.py get_activity_fit_stream          *)
(*                                                                         *)
(* The specifications share the module: SpecD applies extract_duration to  *)
(* bounded payloads, SpecA runs the activity driver and SpecW the wellness *)
(* driver (Spec: either of them), SpecM runs a script from its first line  *)
(* to sys.exit, and SpecF runs get_activity_fit_stream.  The upstream      *)
(* client, the archive and the decoder answer nondeterministically: a      *)
(* payload of some shape, or an exception.                                 *)
(***************************************************************************)
EXTENDS Integers, Sequences, FiniteSets, TLC

VARIABLES
    \* extract_duration applied on its own (SpecD)
    ed_activity, ed_details, ed_result,
    \* sync_activities_by_date_range (SpecA)
    a_pc, activities, a_i, a_resp, formatted_activities, a_result, a_trace, a_raised,
    \* sync_wellness_by_date_range (SpecW)
    w_pc, start_date, end_date, dates, w_i, entry, rhr, w_resp, w_failed,
    wellness_data, w_result, w_trace, w_raised,
    \* a run of one of the two scripts (SpecM)
    script, mcp_src_exists, argc, m_pc, stdout, stderr, exit_code,
    \* get_activity_fit_stream (SpecF)
    f_pc, archive, fit_name, fit_content, messages, records, f_response

edvars == <<ed_activity, ed_details, ed_result>>
avars == <<a_pc, activities, a_i, a_resp, formatted_activities, a_result, a_trace, a_raised>>
wvars == <<w_pc, start_date, end_date, dates, w_i, entry, rhr, w_resp, w_failed,
           wellness_data, w_result, w_trace, w_raised>>
mvars == <<script, mcp_src_exists, argc, m_pc, stdout, stderr, exit_code>>
fvars == <<f_pc, archive, fit_name, fit_content, messages, records, f_response>>
vars == <<edvars, avars, wvars, mvars, fvars>>

(***************************************************************************)
(* Bounds of the model.                                                    *)
(***************************************************************************)
\* most candidate fields present at once in the payloads given to extract_duration
MaxFields == 2
\* longest upstream activity list
MaxActs == 2
\* longest date range, in days
MaxDays == 2
\* most entries of a downloaded archive
MaxEntries == 2
\* most record messages of a sensor recording
MaxRecords == 2

(***************************************************************************)
(* Python values as they arrive from the upstream JSON.  A field value is  *)
(* one record shape for every kind, so that any two are comparable:        *)
(*   t = "absent"  key missing, or None (dict.get gives None for both)     *)
(*   t = "num"     the number i + (1/2 if h), an int or a float            *)
(*   t = "str"     a string that is not a number                           *)
(*   t = "list"    a list                                                  *)
(*   t = "map"     a mapping; it, i, h then describe its totalSeconds      *)
(***************************************************************************)
Absent == [t |-> "absent", it |-> "absent", i |-> 0, h |-> FALSE]
Num(n, half) == [t |-> "num", it |-> "absent", i |-> n, h |-> half]
Str == [t |-> "str", it |-> "absent", i |-> 0, h |-> FALSE]
List == [t |-> "list", it |-> "absent", i |-> 0, h |-> FALSE]
MapTS(inner) == [t |-> "map", it |-> inner.t, i |-> inner.i, h |-> inner.h]

\* duration.get('totalSeconds') on a mapping
totalSecondsOf(v) == [t |-> v.it, it |-> "absent", i |-> v.i, h |-> v.h]

\* isinstance(v, (int, float))
IsNumber(v) == v.t = "num"
\* v > 0 on a number
Positive(v) == v.i > 0 \/ (v.i = 0 /\ v.h)
\* int(v) on a number: truncation toward zero
IntOf(v) == IF v.i >= 0 THEN v.i ELSE IF v.h THEN v.i + 1 ELSE v.i
\* bool(v) of a number
NonZero(v) == v.i # 0 \/ v.h

\* the numbers the payloads draw from: -1, 0, 0.5, 45, 300
Numbers == {Num(-1, FALSE), Num(0, FALSE), Num(0, TRUE), Num(45, FALSE), Num(300, FALSE)}
Scalars == Numbers \cup {Str, List}
\* what a present field may hold
FieldVals == Scalars \cup {MapTS(x) : x \in {Absent, Str, Num(0, FALSE), Num(0, TRUE), Num(45, FALSE)}}

(***************************************************************************)
(* Payloads.  shape is the Python type of the whole payload: "map" for a   *)
(* dict, "none", or "num" / "str" / "list" for a malformed one; empty says *)
(* that the value is falsy ({}, 0, "", []).                                *)
(***************************************************************************)
NoSummary == [shape |-> "none", empty |-> TRUE, elapsedDuration |-> Absent, duration |-> Absent]

EmptyPayload(shape, empty) ==
    [shape |-> shape, empty |-> empty, activityId |-> 0,
     duration |-> Absent, elapsedDuration |-> Absent,
     elapsedDurationInSeconds |-> Absent, summaryDTO |-> NoSummary]

NonePayload == EmptyPayload("none", TRUE)

\* bool(payload)
Truthy(p) == p.shape # "none" /\ ~p.empty

(***************************************************************************)
(* extract_duration (sync-garmin-mcp.py 45-118).  The result is            *)
(*   [state |-> "returned", value, source]   or                            *)
(*   [state |-> "raised", ...]  when an AttributeError escapes.            *)
(***************************************************************************)
Returned(v, src) == [state |-> "returned", value |-> v, source |-> src]
Raised == [state |-> "raised", value |-> 0, source |-> "AttributeError"]
Pending == [state |-> "pending", value |-> 0, source |-> ""]

\* lines 70, 92: total_seconds and isinstance(total_seconds, (int, float)) and total_seconds > 0
ValidTotalSeconds(ts) == IsNumber(ts) /\ NonZero(ts) /\ Positive(ts)

\* as ValidNumber, with >= 0 in place of > 0
ValidNumber_accepts_zero(x) == x.t # "absent" /\ IsNumber(x) /\ x.i >= 0

\* lines 72, 77, 82, ...: x is not None and isinstance(x, (int, float)) and x > 0
ValidNumber(x) == x.t # "absent" /\ IsNumber(x) /\ Positive(x)

\* as extract_from_summary, without its second field
extract_from_summary_first_only(summary_dto) ==
    IF summary_dto.shape = "map" /\ ~summary_dto.empty /\ ValidNumber(summary_dto.elapsedDuration)
    THEN Returned(IntOf(summary_dto.elapsedDuration), "details.summaryDTO.elapsedDuration")
    ELSE Returned(0, "none")

\* lines 108-116
extract_from_summary(summary_dto) ==
    IF summary_dto.shape = "map" /\ ~summary_dto.empty
    THEN IF ValidNumber(summary_dto.elapsedDuration)
         THEN Returned(IntOf(summary_dto.elapsedDuration), "details.summaryDTO.elapsedDuration")
         ELSE IF ValidNumber(summary_dto.duration)
         THEN Returned(IntOf(summary_dto.duration), "details.summaryDTO.duration")
         ELSE Returned(0, "none")
    ELSE Returned(0, "none")

\* as extract_from_details, with the label of details.elapsedDuration copied from the field above
extract_from_details_mislabelled(details) ==
    IF ~Truthy(details) THEN Returned(0, "none")
    ELSE IF details.shape # "map" THEN Raised
    ELSE IF details.duration.t = "map" /\ ValidTotalSeconds(totalSecondsOf(details.duration))
    THEN Returned(IntOf(totalSecondsOf(details.duration)), "details.duration.totalSeconds")
    ELSE IF details.duration.t # "map" /\ ValidNumber(details.duration)
    THEN Returned(IntOf(details.duration), "details.duration")
    ELSE IF ValidNumber(details.elapsedDuration)
    THEN Returned(IntOf(details.elapsedDuration), "details.duration")
    ELSE IF ValidNumber(details.elapsedDurationInSeconds)
    THEN Returned(IntOf(details.elapsedDurationInSeconds), "details.elapsedDurationInSeconds")
    ELSE extract_from_summary(details.summaryDTO)

\* lines 86-118
extract_from_details(details) ==
    IF ~Truthy(details) THEN Returned(0, "none")
    ELSE IF details.shape # "map" THEN Raised
    ELSE IF details.duration.t = "map" /\ ValidTotalSeconds(totalSecondsOf(details.duration))
    THEN Returned(IntOf(totalSecondsOf(details.duration)), "details.duration.totalSeconds")
    ELSE IF details.duration.t # "map" /\ ValidNumber(details.duration)
    THEN Returned(IntOf(details.duration), "details.duration")
    ELSE IF ValidNumber(details.elapsedDuration)
    THEN Returned(IntOf(details.elapsedDuration), "details.elapsedDuration")
    ELSE IF ValidNumber(details.elapsedDurationInSeconds)
    THEN Returned(IntOf(details.elapsedDurationInSeconds), "details.elapsedDurationInSeconds")
    ELSE extract_from_summary(details.summaryDTO)

\* as extract_from_activity, without the dict branch of duration
extract_from_activity_no_dict(activity) ==
    IF ValidNumber(activity.duration)
    THEN Returned(IntOf(activity.duration), "duration")
    ELSE IF ValidNumber(activity.elapsedDuration)
    THEN Returned(IntOf(activity.elapsedDuration), "elapsedDuration")
    ELSE IF ValidNumber(activity.elapsedDurationInSeconds)
    THEN Returned(IntOf(activity.elapsedDurationInSeconds), "elapsedDurationInSeconds")
    ELSE Returned(0, "none")

\* lines 63-83
extract_from_activity(activity) ==
    IF activity.duration.t = "map" /\ ValidTotalSeconds(totalSecondsOf(activity.duration))
    THEN Returned(IntOf(totalSecondsOf(activity.duration)), "duration.totalSeconds")
    ELSE IF activity.duration.t # "map" /\ ValidNumber(activity.duration)
    THEN Returned(IntOf(activity.duration), "duration")
    ELSE IF ValidNumber(activity.elapsedDuration)
    THEN Returned(IntOf(activity.elapsedDuration), "elapsedDuration")
    ELSE IF ValidNumber(activity.elapsedDurationInSeconds)
    THEN Returned(IntOf(activity.elapsedDurationInSeconds), "elapsedDurationInSeconds")
    ELSE Returned(0, "none")

\* as extract_duration, consulting the details object before the list-level item
extract_duration_details_first(activity, details) ==
    IF activity.shape # "map" THEN Raised
    ELSE IF extract_from_details(details).source # "none"
    THEN extract_from_details(details)
    ELSE extract_from_activity(activity)

\* lines 45-118
extract_duration(activity, details) ==
    IF activity.shape # "map" THEN Raised
    ELSE IF extract_from_activity(activity).source # "none"
    THEN extract_from_activity(activity)
    ELSE extract_from_details(details)

(***************************************************************************)
(* SpecD: extract_duration on its own.  The inputs are every pair of       *)
(* payloads with at most MaxFields candidate fields present, each holding  *)
(* any value of FieldVals, under every shape of the payloads themselves.   *)
(***************************************************************************)
APaths == {"a.duration", "a.elapsedDuration", "a.elapsedDurationInSeconds"}
DPaths == {"d.duration", "d.elapsedDuration", "d.elapsedDurationInSeconds"}
SPaths == {"s.elapsedDuration", "s.duration"}
Paths == APaths \cup DPaths \cup SPaths

TopShapes == {"map", "none", "num", "str", "list"}
SummaryShapes == {"map", "none", "str"}

FieldAt(S, f, p) == IF p \in S THEN f[p] ELSE Absent

MkSummary(ssh, S, f) ==
    [shape |-> ssh, empty |-> (ssh = "none"),
     elapsedDuration |-> FieldAt(S, f, "s.elapsedDuration"),
     duration |-> FieldAt(S, f, "s.duration")]

MkActivity(ash, S, f) ==
    [shape |-> ash, empty |-> (ash = "none"), activityId |-> 0,
     duration |-> FieldAt(S, f, "a.duration"),
     elapsedDuration |-> FieldAt(S, f, "a.elapsedDuration"),
     elapsedDurationInSeconds |-> FieldAt(S, f, "a.elapsedDurationInSeconds"),
     summaryDTO |-> NoSummary]

MkDetails(dsh, de, ssh, S, f) ==
    [shape |-> dsh, empty |-> de, activityId |-> 0,
     duration |-> FieldAt(S, f, "d.duration"),
     elapsedDuration |-> FieldAt(S, f, "d.elapsedDuration"),
     elapsedDurationInSeconds |-> FieldAt(S, f, "d.elapsedDurationInSeconds"),
     summaryDTO |-> MkSummary(ssh, S, f)]

\* the shapes hang together: only a mapping has fields, None and {} are falsy
WellFormedInput(ash, dsh, de, ssh, S) ==
    /\ ash # "map" => S \cap APaths = {}
    /\ dsh # "map" => S \cap (DPaths \cup SPaths) = {} /\ ssh = "none"
    /\ dsh = "none" => de
    /\ de => S \cap (DPaths \cup SPaths) = {} /\ ssh = "none"
    /\ ssh # "map" => S \cap SPaths = {}

EDInputs ==
    \E S \in SUBSET Paths : \E ash \in TopShapes, dsh \in TopShapes :
    \E de \in BOOLEAN, ssh \in SummaryShapes :
        /\ Cardinality(S) <= MaxFields
        /\ WellFormedInput(ash, dsh, de, ssh, S)
        /\ \E f \in [S -> FieldVals] :
              /\ ed_activity = MkActivity(ash, S, f)
              /\ ed_details = MkDetails(dsh, de, ssh, S, f)

AIdle ==
    /\ a_pc = "idle" /\ activities = <<>> /\ a_i = 0 /\ a_resp = [threw |-> "no", data |-> NonePayload]
    /\ formatted_activities = <<>> /\ a_trace = <<>> /\ a_raised = "no"
    /\ a_result = [success |-> FALSE, error |-> "", message |-> "", has_activities |-> FALSE,
                   activities |-> <<>>, has_count |-> FALSE, count |-> 0]

WIdle ==
    /\ w_pc = "idle" /\ start_date = <<0, 0, 0>> /\ end_date = <<0, 0, 0>>
    /\ dates = <<>> /\ w_i = 0 /\ rhr = Absent /\ wellness_data = <<>> /\ w_trace = <<>>
    /\ w_failed = {} /\ w_raised = "no"
    /\ entry = [date |-> <<0, 0, 0>>, hrv |-> Absent, rhr |-> Absent,
                sleepSeconds |-> Absent, sleepScore |-> Absent]
    /\ w_resp = [threw |-> "no", data |-> NonePayload]
    /\ w_result = [success |-> FALSE, error |-> "", message |-> "", has_wellness_data |-> FALSE,
                   wellness_data |-> <<>>, has_count |-> FALSE, count |-> 0, entries_with_data |-> 0]

\* get_activity_fit_stream is not called
FIdle ==
    /\ f_pc = "idle" /\ archive = [ok |-> FALSE, entries |-> <<>>]
    /\ fit_name = <<>> /\ fit_content = "" /\ messages = <<>> /\ records = <<>>
    /\ f_response = [kind |-> "none", message |-> "", stream |-> <<>>, count |-> 0, source |-> ""]

\* no script is run: the function is called on its own
MIdle ==
    /\ script = "none" /\ mcp_src_exists = TRUE /\ argc = 3 /\ m_pc = "idle"
    /\ stdout = <<>> /\ stderr = <<>> /\ exit_code = -1

InitD == EDInputs /\ ed_result = Pending /\ AIdle /\ WIdle /\ MIdle /\ FIdle

\* the call extract_duration(activity, details)
ExtractCall ==
    /\ ed_result.state = "pending"
    /\ ed_result' = extract_duration(ed_activity, ed_details)
    /\ UNCHANGED <<ed_activity, ed_details, avars, wvars, mvars, fvars>>

NextD == ExtractCall

SpecD == InitD /\ [][NextD]_vars

(***************************************************************************)
(* The upstream client.  safe_call either returns a payload or raises; the *)
(* exceptions are GarminRateLimitError ("rate"), GarminAuthenticationError *)
(* ("auth"), GarminAPIError ("api") and any other Exception ("other").     *)
(* All four are Exceptions, so a bare `except Exception` catches each.     *)
(***************************************************************************)
ExcKinds == {"rate", "auth", "api", "other"}

ThrewWith(kind, nothing) == [threw |-> kind, data |-> nothing]
Threw(kind) == ThrewWith(kind, NonePayload)
Answered(payload) == [threw |-> "no", data |-> payload]
NoResponse == Answered(NonePayload)

\* as ErrorOf, without the clause for GarminAPIError
ErrorOf_unclassified(kind) ==
    CASE kind = "rate" -> "RATE_LIMITED"
      [] kind = "auth" -> "AUTH_FAILED"
      [] OTHER -> "UNKNOWN_ERROR"

\* the except clauses that end both drivers (sync-garmin-mcp.py 234-257)
ErrorOf(kind) ==
    CASE kind = "rate" -> "RATE_LIMITED"
      [] kind = "auth" -> "AUTH_FAILED"
      [] kind = "api" -> "API_ERROR"
      [] OTHER -> "UNKNOWN_ERROR"

MessageOf(kind) ==
    CASE kind = "rate" -> "Rate limit exceeded. Please wait a few minutes before trying again."
      [] kind = "auth" -> "Authentication failed. Please run garmin-connect-mcp-auth to re-authenticate."
      [] kind = "api" -> "str(e)"
      [] OTHER -> "Unexpected error: str(e)"

(***************************************************************************)
(* sync_activities_by_date_range (sync-garmin-mcp.py 121-257).             *)
(*   a_pc   "init"   before init_garmin_client                             *)
(*          "list"   before get_activities_by_date                         *)
(*          "item"   at the head of the for loop, a_i items handled        *)
(*          "format" get_activity has answered (a_resp) for item a_i + 1   *)
(*          "done"   returned, a_result is the returned dict               *)
(*   a_trace the external calls and pacing sleeps made so far              *)
(*   a_raised the exception that reached the handlers at 234-257, or "no"  *)
(***************************************************************************)
AFailure(error, message) ==
    [success |-> FALSE, error |-> error, message |-> message,
     has_activities |-> FALSE, activities |-> <<>>, has_count |-> FALSE, count |-> 0]

ASuccess(formatted) ==
    [success |-> TRUE, error |-> "", message |-> "",
     has_activities |-> TRUE, activities |-> formatted, has_count |-> TRUE, count |-> Len(formatted)]

ANotReturned == AFailure("", "")

Event(op, item, arg) == [op |-> op, item |-> item, arg |-> arg]

\* an upstream list item: a dict with an activityId (0: none) and a list-level duration
ListItem(id, duration) ==
    [shape |-> "map", empty |-> FALSE, activityId |-> id,
     duration |-> duration, elapsedDuration |-> Absent,
     elapsedDurationInSeconds |-> Absent, summaryDTO |-> NoSummary]

UpstreamItems ==
    { ListItem(7, Num(45, FALSE)), ListItem(8, Absent), ListItem(0, Num(300, FALSE)),
      EmptyPayload("none", TRUE) }

UpstreamLists == UNION {[1..n -> UpstreamItems] : n \in 0..MaxActs}

\* what get_activity may answer: nothing, a details dict, a dict without duration, a list
DetailPayloads ==
    { NonePayload,
      [EmptyPayload("map", FALSE) EXCEPT !.duration = Num(300, FALSE)],
      EmptyPayload("map", FALSE),
      EmptyPayload("list", FALSE) }

DetailResponses == {Threw(k) : k \in ExcKinds} \cup {Answered(d) : d \in DetailPayloads}

\* lines 215-223
FormattedActivity(activity, details, duration_seconds) ==
    [activityId |-> activity.activityId, durationInSeconds |-> duration_seconds, details |-> details]

AInit ==
    /\ a_pc = "init" /\ activities = <<>> /\ a_i = 0 /\ a_resp = NoResponse
    /\ formatted_activities = <<>> /\ a_result = ANotReturned /\ a_trace = <<>> /\ a_raised = "no"

\* lines 137-163: load_config and init_garmin_client
A_InitClient ==
    /\ a_pc = "init"
    /\ \E outcome \in {"client", "falsy"} \cup ExcKinds :
          IF outcome = "client"
          THEN a_pc' = "list" /\ a_result' = a_result /\ a_raised' = a_raised
          ELSE /\ a_pc' = "done"
               /\ a_raised' = IF outcome = "falsy" THEN "no" ELSE outcome
               /\ a_result' = IF outcome = "falsy"
                              THEN AFailure("AUTH_FAILED", "Failed to initialize Garmin client. Check credentials or run garmin-connect-mcp-auth.")
                              ELSE AFailure(ErrorOf(outcome), MessageOf(outcome))
    /\ UNCHANGED <<activities, a_i, a_resp, formatted_activities, a_trace, edvars, wvars, mvars, fvars>>

\* lines 167-169: the one date-range query; len() of an answer that is no list raises TypeError
A_ListActivities ==
    /\ a_pc = "list"
    /\ a_trace' = Append(a_trace, Event("get_activities_by_date", 0, 0))
    /\ \E outcome \in {"list", "none"} \cup ExcKinds :
          CASE outcome = "list" ->
                   /\ activities' \in UpstreamLists
                   /\ a_pc' = "item" /\ a_result' = a_result /\ a_raised' = a_raised
            [] outcome = "none" ->
                   /\ activities' = activities /\ a_raised' = "other"
                   /\ a_pc' = "done" /\ a_result' = AFailure(ErrorOf("other"), MessageOf("other"))
            [] OTHER ->
                   /\ activities' = activities /\ a_raised' = outcome
                   /\ a_pc' = "done" /\ a_result' = AFailure(ErrorOf(outcome), MessageOf(outcome))
    /\ UNCHANGED <<a_i, a_resp, formatted_activities, edvars, wvars, mvars, fvars>>

\* lines 176, 224-226: activity.get on an item that is no dict raises; the item is skipped
A_SkipMalformed ==
    /\ a_pc = "item" /\ a_i < Len(activities)
    /\ activities[a_i + 1].shape # "map"
    /\ a_i' = a_i + 1
    /\ UNCHANGED <<a_pc, activities, a_resp, formatted_activities, a_result, a_trace, a_raised, edvars, wvars, mvars, fvars>>

\* lines 176-178: if not activity_id: continue
A_SkipNoId ==
    /\ a_pc = "item" /\ a_i < Len(activities)
    /\ activities[a_i + 1].shape = "map"
    /\ activities[a_i + 1].activityId = 0
    /\ a_i' = a_i + 1
    /\ UNCHANGED <<a_pc, activities, a_resp, formatted_activities, a_result, a_trace, a_raised, edvars, wvars, mvars, fvars>>

\* as A_FetchDetails, with the pacing sleep before every detail fetch, the first included
A_FetchDetails_always_sleeps ==
    /\ a_pc = "item" /\ a_i < Len(activities)
    /\ activities[a_i + 1].shape = "map"
    /\ activities[a_i + 1].activityId # 0
    /\ a_trace' = a_trace \o <<Event("sleep", a_i + 1, 2)>>
                          \o <<Event("get_activity", a_i + 1, activities[a_i + 1].activityId)>>
    /\ a_resp' \in DetailResponses
    /\ a_pc' = "format"
    /\ UNCHANGED <<activities, a_i, formatted_activities, a_result, a_raised, edvars, wvars, mvars, fvars>>

\* as A_FetchDetails, with a detail call that raised made a second time
A_FetchDetails_retries ==
    /\ a_pc = "item" /\ a_i < Len(activities)
    /\ activities[a_i + 1].shape = "map"
    /\ activities[a_i + 1].activityId # 0
    /\ \E resp \in DetailResponses :
          /\ a_resp' = resp
          /\ a_trace' = a_trace \o (IF a_i > 0 THEN <<Event("sleep", a_i + 1, 2)>> ELSE <<>>)
                                \o <<Event("get_activity", a_i + 1, activities[a_i + 1].activityId)>>
                                \o (IF resp.threw # "no"
                                    THEN <<Event("get_activity", a_i + 1, activities[a_i + 1].activityId)>>
                                    ELSE <<>>)
    /\ a_pc' = "format"
    /\ UNCHANGED <<activities, a_i, formatted_activities, a_result, a_raised, edvars, wvars, mvars, fvars>>

\* lines 186-197: the pacing sleep when i > 0, then get_activity inside its own try
A_FetchDetails ==
    /\ a_pc = "item" /\ a_i < Len(activities)
    /\ activities[a_i + 1].shape = "map"
    /\ activities[a_i + 1].activityId # 0
    /\ a_trace' = a_trace \o (IF a_i > 0 THEN <<Event("sleep", a_i + 1, 2)>> ELSE <<>>)
                          \o <<Event("get_activity", a_i + 1, activities[a_i + 1].activityId)>>
    /\ a_resp' \in DetailResponses
    /\ a_pc' = "format"
    /\ UNCHANGED <<activities, a_i, formatted_activities, a_result, a_raised, edvars, wvars, mvars, fvars>>

\* as A_Format, with an activity left out when a record of the same identifier was emitted before
A_Format_dedup ==
    /\ a_pc = "format"
    /\ LET activity == activities[a_i + 1]
           details == IF a_resp.threw # "no" THEN NonePayload ELSE a_resp.data
           extracted == extract_duration(activity, details)
           seen == \E k \in DOMAIN formatted_activities :
                       formatted_activities[k].activityId = activity.activityId
       IN formatted_activities' =
              IF extracted.state = "raised" \/ seen THEN formatted_activities
              ELSE Append(formatted_activities, FormattedActivity(activity, details, extracted.value))
    /\ a_i' = a_i + 1
    /\ a_pc' = "item"
    /\ UNCHANGED <<activities, a_resp, a_result, a_trace, a_raised, edvars, wvars, mvars, fvars>>

\* lines 194-226: details is None after a failed fetch; an exception out of extract_duration
\* is caught by the item's except and the item is left out
A_Format ==
    /\ a_pc = "format"
    /\ LET activity == activities[a_i + 1]
           details == IF a_resp.threw # "no" THEN NonePayload ELSE a_resp.data
           extracted == extract_duration(activity, details)
       IN formatted_activities' =
              IF extracted.state = "raised" THEN formatted_activities
              ELSE Append(formatted_activities, FormattedActivity(activity, details, extracted.value))
    /\ a_i' = a_i + 1
    /\ a_pc' = "item"
    /\ UNCHANGED <<activities, a_resp, a_result, a_trace, a_raised, edvars, wvars, mvars, fvars>>

\* lines 228-232
A_Return ==
    /\ a_pc = "item" /\ a_i = Len(activities)
    /\ a_result' = ASuccess(formatted_activities)
    /\ a_pc' = "done"
    /\ a_resp' = NoResponse
    /\ UNCHANGED <<activities, a_i, formatted_activities, a_trace, a_raised, edvars, wvars, mvars, fvars>>

EDIdle == ed_activity = NonePayload /\ ed_details = NonePayload /\ ed_result = Pending

NextA == A_InitClient \/ A_ListActivities \/ A_SkipMalformed \/ A_SkipNoId
            \/ A_FetchDetails \/ A_Format \/ A_Return

InitA == AInit /\ EDIdle /\ WIdle /\ MIdle /\ FIdle

SpecA == InitA /\ [][NextA]_vars

(***************************************************************************)
(* Calendar dates (sync-garmin-wellness-mcp.py 87-93).  A date string      *)
(* 'YYYY-MM-DD' is the triple <<y, m, d>>; strptime rejects a triple that  *)
(* is no calendar day with ValueError.                                     *)
(***************************************************************************)
IsLeap(y) == (y % 4 = 0 /\ y % 100 # 0) \/ y % 400 = 0

DaysInMonth(y, m) ==
    CASE m \in {4, 6, 9, 11} -> 30
      [] m = 2 -> IF IsLeap(y) THEN 29 ELSE 28
      [] OTHER -> 31

\* datetime.strptime(s, '%Y-%m-%d') succeeds
ParsesAsDate(s) == s[2] \in 1..12 /\ s[3] \in 1..DaysInMonth(s[1], s[2])

\* current += timedelta(days=1)
NextDay(date) ==
    IF date[3] < DaysInMonth(date[1], date[2]) THEN <<date[1], date[2], date[3] + 1>>
    ELSE IF date[2] < 12 THEN <<date[1], date[2] + 1, 1>>
    ELSE <<date[1] + 1, 1, 1>>

\* current <= end
DateLeq(a, b) ==
    \/ a[1] < b[1]
    \/ a[1] = b[1] /\ a[2] < b[2]
    \/ a[1] = b[1] /\ a[2] = b[2] /\ a[3] <= b[3]

\* as DateList, with the end date left out of the range
RECURSIVE DateList_exclusive(_, _)
DateList_exclusive(current, end) ==
    IF DateLeq(current, end) /\ current # end
    THEN <<current>> \o DateList_exclusive(NextDay(current), end)
    ELSE <<>>

\* lines 89-93: the while loop that fills dates
RECURSIVE DateList(_, _)
DateList(current, end) ==
    IF DateLeq(current, end) THEN <<current>> \o DateList(NextDay(current), end) ELSE <<>>

(***************************************************************************)
(* Values inside the wellness payloads.                                    *)
(***************************************************************************)
\* bool(v) of a field value
TruthyVal(v) == v.t \in {"str", "list", "map"} \/ (v.t = "num" /\ NonZero(v))

\* Python's  a or b
Or(a, b) == IF TruthyVal(a) THEN a ELSE b

\* float(v) raises ValueError / TypeError unless v is a number
FloatRaises(v) == v.t # "num"

\* a nested object holding lastNightAvg and avgOvernightHrv; shape "absent" when the key is missing
HrvObject(shape, lastNightAvg, avgOvernightHrv) ==
    [shape |-> shape, lastNightAvg |-> lastNightAvg, avgOvernightHrv |-> avgOvernightHrv]
NoObject == HrvObject("absent", Absent, Absent)

\* the answer of get_hrv_data; number is the value when the answer is a plain number
HrvData(shape, empty, number, hrvSummary, hrvSummaryDTO, lastNightAvg, hrv) ==
    [shape |-> shape, empty |-> empty, number |-> number,
     hrvSummary |-> hrvSummary, hrvSummaryDTO |-> hrvSummaryDTO,
     lastNightAvg |-> lastNightAvg, avgOvernightHrv |-> Absent,
     averageHrv |-> Absent, overnightAvg |-> Absent, hrv |-> hrv]

HrvPayloads ==
    { HrvData("none", TRUE, Absent, NoObject, NoObject, Absent, NoObject),
      HrvData("map", FALSE, Absent, HrvObject("map", Num(42, FALSE), Absent), NoObject, Absent, NoObject),
      HrvData("map", FALSE, Absent, NoObject, NoObject, Str, NoObject),
      HrvData("map", FALSE, Absent, NoObject, NoObject, Absent, NoObject),
      HrvData("num", FALSE, Num(42, FALSE), NoObject, NoObject, Absent, NoObject) }

\* lines 116-140: the value of hrv after the cascade over the answer's shapes
hrv_of(hrv_data) ==
    IF hrv_data.shape # "map" THEN Absent
    ELSE LET summaryChosen == IF hrv_data.hrvSummary.shape # "absent" THEN hrv_data.hrvSummary
                              ELSE hrv_data.hrvSummaryDTO
             fromSummary == IF summaryChosen.shape = "map"
                            THEN Or(summaryChosen.lastNightAvg, summaryChosen.avgOvernightHrv)
                            ELSE Absent
             direct == Or(Or(Or(hrv_data.lastNightAvg, hrv_data.avgOvernightHrv),
                             hrv_data.averageHrv), hrv_data.overnightAvg)
             fromObject == IF hrv_data.hrv.shape = "map"
                           THEN Or(hrv_data.hrv.lastNightAvg, hrv_data.hrv.avgOvernightHrv)
                           ELSE Absent
         IN IF fromSummary.t # "absent" THEN fromSummary
            ELSE IF direct.t # "absent" THEN direct
            ELSE fromObject

\* as entry_hrv, with the key left unset when the call raised
entry_hrv_unset_on_failure(resp) ==
    IF resp.threw # "no" THEN [t |-> "unset", it |-> "absent", i |-> 0, h |-> FALSE]
    ELSE IF resp.data.shape = "none" \/ resp.data.empty THEN Absent
    ELSE IF hrv_of(resp.data).t = "absent" THEN Absent
    ELSE IF FloatRaises(hrv_of(resp.data)) THEN Absent
    ELSE hrv_of(resp.data)

\* lines 110-152: entry['hrv'] for an answer of get_hrv_data
entry_hrv(resp) ==
    IF resp.threw # "no" THEN Absent
    ELSE IF resp.data.shape = "none" \/ resp.data.empty THEN Absent
    ELSE IF hrv_of(resp.data).t = "absent" THEN Absent
    ELSE IF FloatRaises(hrv_of(resp.data)) THEN Absent
    ELSE hrv_of(resp.data)

\* the answer of get_rhr_day and of get_heart_rates
RhrData(shape, empty, number, restingHeartRate, rhrField, last) ==
    [shape |-> shape, empty |-> empty, number |-> number,
     restingHeartRate |-> restingHeartRate, rhr |-> rhrField, last |-> last]

RhrDayPayloads ==
    { RhrData("none", TRUE, Absent, Absent, Absent, Absent),
      RhrData("num", FALSE, Num(50, FALSE), Absent, Absent, Absent),
      RhrData("map", FALSE, Absent, Num(50, FALSE), Absent, Absent),
      RhrData("map", FALSE, Absent, Absent, Absent, Str) }

HeartRatePayloads ==
    { RhrData("none", TRUE, Absent, Absent, Absent, Absent),
      RhrData("map", FALSE, Absent, Num(51, FALSE), Absent, Absent),
      RhrData("list", FALSE, Absent, Absent, Absent, Absent) }

\* lines 167-171, 180-184: first truthy of the three keys (last is 'value', resp. 'resting_hr');
\* when float() raises, the except leaves the raw value in rhr
rhr_from_dict(data) ==
    Or(Or(data.restingHeartRate, data.rhr), data.last)

\* lines 160-173: rhr after method 1
rhr_after_rhr_day(resp) ==
    IF resp.threw # "no" THEN Absent
    ELSE IF resp.data.shape = "none" THEN Absent
    ELSE IF resp.data.shape = "num" THEN resp.data.number
    ELSE IF resp.data.shape = "map" THEN rhr_from_dict(resp.data)
    ELSE Absent

\* lines 177-186: rhr after method 2
rhr_after_heart_rates(resp) ==
    IF resp.threw # "no" THEN Absent
    ELSE IF resp.data.shape = "map" /\ ~resp.data.empty THEN rhr_from_dict(resp.data)
    ELSE Absent

\* the answer of get_sleep_data
SleepData(shape, empty, dtoShape, sleepTimeSeconds, scoresShape, overallShape, value, restingHeartRate) ==
    [shape |-> shape, empty |-> empty, dtoShape |-> dtoShape, sleepTimeSeconds |-> sleepTimeSeconds,
     scoresShape |-> scoresShape, overallShape |-> overallShape, value |-> value,
     restingHeartRate |-> restingHeartRate]

SleepPayloads ==
    { SleepData("none", TRUE, "absent", Absent, "absent", "absent", Absent, Absent),
      SleepData("map", FALSE, "map", Num(28800, FALSE), "map", "map", Num(80, FALSE), Num(52, FALSE)),
      SleepData("map", FALSE, "map", Num(28800, FALSE), "absent", "absent", Absent, Str),
      SleepData("list", FALSE, "absent", Absent, "absent", "absent", Absent, Absent) }

\* lines 203-206: an AttributeError out of the chained .get calls
sleep_fields_raise(data) ==
    \/ data.shape # "map"
    \/ data.dtoShape \notin {"absent", "map"}
    \/ data.dtoShape = "map" /\ data.scoresShape = "map" /\ data.overallShape \notin {"absent", "map"}

sleep_seconds_of(data) == IF data.dtoShape = "map" THEN data.sleepTimeSeconds ELSE Absent

sleep_score_of(data) ==
    IF data.dtoShape = "map" /\ data.scoresShape = "map" /\ data.overallShape = "map"
    THEN data.value ELSE Absent

\* as entry_after_sleep, with the sleep payload's restingHeartRate taken whenever it is a number
entry_after_sleep_overwrites(e, resp) ==
    LET cleared == [e EXCEPT !.sleepSeconds = Absent, !.sleepScore = Absent]
        filled == [e EXCEPT !.sleepSeconds = sleep_seconds_of(resp.data),
                            !.sleepScore = sleep_score_of(resp.data)]
    IN IF resp.threw # "no" THEN cleared
       ELSE IF resp.data.shape = "none" \/ resp.data.empty THEN cleared
       ELSE IF sleep_fields_raise(resp.data) THEN cleared
       ELSE IF resp.data.restingHeartRate.t # "absent"
       THEN IF FloatRaises(resp.data.restingHeartRate) THEN cleared
            ELSE [filled EXCEPT !.rhr = resp.data.restingHeartRate]
       ELSE filled

\* lines 200-220: the entry after the sleep block.  Any exception inside the block, the float()
\* of the sleep payload's restingHeartRate included, ends in the except that clears both fields.
entry_after_sleep(e, resp) ==
    LET cleared == [e EXCEPT !.sleepSeconds = Absent, !.sleepScore = Absent]
        filled == [e EXCEPT !.sleepSeconds = sleep_seconds_of(resp.data),
                            !.sleepScore = sleep_score_of(resp.data)]
    IN IF resp.threw # "no" THEN cleared
       ELSE IF resp.data.shape = "none" \/ resp.data.empty THEN cleared
       ELSE IF sleep_fields_raise(resp.data) THEN cleared
       ELSE IF e.rhr.t = "absent" /\ resp.data.restingHeartRate.t # "absent"
       THEN IF FloatRaises(resp.data.restingHeartRate) THEN cleared
            ELSE [filled EXCEPT !.rhr = resp.data.restingHeartRate]
       ELSE filled


(***************************************************************************)
(* sync_wellness_by_date_range (sync-garmin-wellness-mcp.py 46-279).       *)
(*   w_pc   "init"        before init_garmin_client                        *)
(*          "dates"       before the date list is generated                *)
(*          "day"         at the head of the for loop, w_i days handled    *)
(*          "rhr_day"     before get_rhr_day                               *)
(*          "heart_rates" before get_heart_rates                           *)
(*          "sleep"       before get_sleep_data                            *)
(*          "done"        returned, w_result is the returned dict          *)
(*   w_resp  the answer of the latest safe_call                            *)
(*   w_failed the calls of the day in progress that raised                 *)
(*   w_trace the external calls and pacing sleeps made so far              *)
(*   w_raised the exception that reached the handlers at 256-279, or "no"  *)
(***************************************************************************)
Unset == [t |-> "unset", it |-> "absent", i |-> 0, h |-> FALSE]

NewEntry(date_str) ==
    [date |-> date_str, hrv |-> Unset, rhr |-> Unset, sleepSeconds |-> Unset, sleepScore |-> Unset]

NoEntry == NewEntry(<<0, 0, 0>>)

HrvNone == HrvData("none", TRUE, Absent, NoObject, NoObject, Absent, NoObject)
RhrNone == RhrData("none", TRUE, Absent, Absent, Absent, Absent)
SleepNone == SleepData("none", TRUE, "absent", Absent, "absent", "absent", Absent, Absent)

HrvResponses == {ThrewWith(k, HrvNone) : k \in ExcKinds} \cup {Answered(d) : d \in HrvPayloads}
RhrDayResponses == {ThrewWith(k, RhrNone) : k \in ExcKinds} \cup {Answered(d) : d \in RhrDayPayloads}
HeartRateResponses == {ThrewWith(k, RhrNone) : k \in ExcKinds} \cup {Answered(d) : d \in HeartRatePayloads}
SleepResponses == {ThrewWith(k, SleepNone) : k \in ExcKinds} \cup {Answered(d) : d \in SleepPayloads}

WFailure(error, message) ==
    [success |-> FALSE, error |-> error, message |-> message,
     has_wellness_data |-> FALSE, wellness_data |-> <<>>, has_count |-> FALSE, count |-> 0,
     entries_with_data |-> 0]

\* lines 242-245
HasData(e) == e.hrv.t # "absent" \/ e.rhr.t # "absent" \/ e.sleepSeconds.t # "absent"

\* lines 242-254
WSuccess(data) ==
    [success |-> TRUE, error |-> "", message |-> "",
     has_wellness_data |-> TRUE, wellness_data |-> data, has_count |-> TRUE, count |-> Len(data),
     entries_with_data |-> Cardinality({k \in DOMAIN data : HasData(data[k])})]

WNotReturned == WFailure("", "")

\* the date arguments: the last day of a year, of a leap February, of a common February, and
\* a string that is no calendar day
StartDates == {<<2023, 12, 31>>, <<2024, 2, 28>>, <<2023, 2, 28>>, <<2023, 2, 29>>}

\* days from 2023-01-01 to a date of 2023 or 2024
RECURSIVE DaysBeforeMonth(_, _)
DaysBeforeMonth(y, m) == IF m = 1 THEN 0 ELSE DaysBeforeMonth(y, m - 1) + DaysInMonth(y, m - 1)
Ordinal(date) ==
    (IF date[1] = 2023 THEN 0 ELSE 365) + DaysBeforeMonth(date[1], date[2]) + date[3]

CalendarDays ==
    {<<y, m, d>> : y \in {2023, 2024}, m \in {1, 2, 3, 12}, d \in 1..31}

\* the end dates tried with a start date: from the day before it to MaxDays - 1 days after it, and
\* a string that is no calendar day
EndDatesFor(start) ==
    {e \in CalendarDays : ParsesAsDate(e) /\ Ordinal(e) - Ordinal(start) \in -1..(MaxDays - 1)}
        \cup {<<2023, 2, 30>>}

WInit ==
    /\ w_pc = "init"
    /\ start_date \in StartDates
    /\ end_date \in EndDatesFor(start_date)
    /\ dates = <<>> /\ w_i = 0 /\ entry = NoEntry /\ rhr = Absent /\ w_resp = Answered(HrvNone)
    /\ wellness_data = <<>> /\ w_result = WNotReturned /\ w_trace = <<>> /\ w_failed = {}
    /\ w_raised = "no"

\* lines 62-84: load_config and init_garmin_client
W_InitClient ==
    /\ w_pc = "init"
    /\ \E outcome \in {"client", "falsy"} \cup ExcKinds :
          IF outcome = "client"
          THEN w_pc' = "dates" /\ w_result' = w_result /\ w_raised' = w_raised
          ELSE /\ w_pc' = "done"
               /\ w_raised' = IF outcome = "falsy" THEN "no" ELSE outcome
               /\ w_result' = IF outcome = "falsy"
                              THEN WFailure("AUTH_FAILED", "Failed to initialize Garmin client. Check credentials or run garmin-connect-mcp-auth.")
                              ELSE WFailure(ErrorOf(outcome), MessageOf(outcome))
    /\ UNCHANGED <<start_date, end_date, dates, w_i, entry, rhr, w_resp, w_failed, wellness_data,
                   w_trace, edvars, avars, mvars, fvars>>

\* lines 87-95: strptime of both arguments (ValueError goes to the last except), then the list
W_GenerateDates ==
    /\ w_pc = "dates"
    /\ IF ParsesAsDate(start_date) /\ ParsesAsDate(end_date)
       THEN /\ dates' = DateList(start_date, end_date)
            /\ w_pc' = "day" /\ w_result' = w_result /\ w_raised' = w_raised
       ELSE /\ dates' = dates /\ w_raised' = "other"
            /\ w_pc' = "done" /\ w_result' = WFailure(ErrorOf("other"), MessageOf("other"))
    /\ UNCHANGED <<start_date, end_date, w_i, entry, rhr, w_resp, w_failed, wellness_data, w_trace,
                   edvars, avars, mvars, fvars>>

\* lines 100-152: the pacing sleep when i > 0, the new entry, get_hrv_data in its own try
W_FetchHrv ==
    /\ w_pc = "day" /\ w_i < Len(dates)
    /\ w_trace' = w_trace \o (IF w_i > 0 THEN <<Event("sleep", w_i + 1, 1)>> ELSE <<>>)
                          \o <<Event("get_hrv_data", w_i + 1, 0)>>
    /\ \E resp \in HrvResponses :
          /\ w_resp' = resp
          /\ entry' = [NewEntry(dates[w_i + 1]) EXCEPT !.hrv = entry_hrv(resp)]
          /\ w_failed' = IF resp.threw # "no" THEN {"get_hrv_data"} ELSE {}
    /\ rhr' = Absent
    /\ w_pc' = "rhr_day"
    /\ UNCHANGED <<start_date, end_date, dates, w_i, wellness_data, w_result, w_raised, edvars, avars, mvars, fvars>>

\* lines 156-176, 191: method 1; entry['rhr'] is set here when method 2 is not needed
W_FetchRhrDay ==
    /\ w_pc = "rhr_day"
    /\ w_trace' = Append(w_trace, Event("get_rhr_day", w_i + 1, 0))
    /\ \E resp \in RhrDayResponses :
          /\ w_resp' = resp
          /\ rhr' = rhr_after_rhr_day(resp)
          /\ w_failed' = w_failed \cup (IF resp.threw # "no" THEN {"get_rhr_day"} ELSE {})
          /\ IF rhr_after_rhr_day(resp).t = "absent"
             THEN w_pc' = "heart_rates" /\ entry' = entry
             ELSE w_pc' = "sleep" /\ entry' = [entry EXCEPT !.rhr = rhr_after_rhr_day(resp)]
    /\ UNCHANGED <<start_date, end_date, dates, w_i, wellness_data, w_result, w_raised, edvars, avars, mvars, fvars>>

\* lines 176-191: method 2, only when rhr is still None
W_FetchHeartRates ==
    /\ w_pc = "heart_rates"
    /\ w_trace' = Append(w_trace, Event("get_heart_rates", w_i + 1, 0))
    /\ \E resp \in HeartRateResponses :
          /\ w_resp' = resp
          /\ rhr' = rhr_after_heart_rates(resp)
          /\ w_failed' = w_failed \cup (IF resp.threw # "no" THEN {"get_heart_rates"} ELSE {})
          /\ entry' = [entry EXCEPT !.rhr = rhr_after_heart_rates(resp)]
    /\ w_pc' = "sleep"
    /\ UNCHANGED <<start_date, end_date, dates, w_i, wellness_data, w_result, w_raised, edvars, avars, mvars, fvars>>

\* lines 199-225: get_sleep_data in its own try, then the entry is appended
W_FetchSleep ==
    /\ w_pc = "sleep"
    /\ w_trace' = Append(w_trace, Event("get_sleep_data", w_i + 1, 0))
    /\ \E resp \in SleepResponses :
          /\ w_resp' = resp
          /\ entry' = entry_after_sleep(entry, resp)
          /\ w_failed' = w_failed \cup (IF resp.threw # "no" THEN {"get_sleep_data"} ELSE {})
          /\ wellness_data' = Append(wellness_data, entry_after_sleep(entry, resp))
    /\ w_i' = w_i + 1
    /\ w_pc' = "day"
    /\ UNCHANGED <<start_date, end_date, dates, rhr, w_result, w_raised, edvars, avars, mvars, fvars>>

\* lines 241-254
W_Return ==
    /\ w_pc = "day" /\ w_i = Len(dates)
    /\ w_result' = WSuccess(wellness_data)
    /\ w_pc' = "done"
    /\ w_resp' = Answered(HrvNone) /\ entry' = NoEntry /\ rhr' = Absent
    /\ UNCHANGED <<start_date, end_date, dates, w_i, w_failed, wellness_data, w_trace, w_raised, edvars, avars, mvars, fvars>>

NextW == W_InitClient \/ W_GenerateDates \/ W_FetchHrv \/ W_FetchRhrDay
            \/ W_FetchHeartRates \/ W_FetchSleep \/ W_Return

InitW == WInit /\ EDIdle /\ AIdle /\ MIdle /\ FIdle

SpecW == InitW /\ [][NextW]_vars

\* either driver, as a run of its script
Init == InitA \/ InitW
Next == NextA \/ NextW
Spec == Init /\ [][Next]_vars

(***************************************************************************)
(* A run of a script: the module-level check of the MCP source directory   *)
(* (24-33), then __main__ (sync-garmin-mcp.py 260-275, sync-garmin-        *)
(* wellness-mcp.py 282-297).                                               *)
(*   script     which of the two scripts is run                            *)
(*   argc       len(sys.argv)                                              *)
(*   m_pc       "start"  before the check of mcp_src                       *)
(*              "main"   at the head of __main__                           *)
(*              "call"   inside the driver function                        *)
(*              "exited" after sys.exit                                    *)
(*   stdout, stderr  the JSON documents printed to each stream             *)
(*   exit_code  the argument of sys.exit, -1 while the script runs         *)
(***************************************************************************)
\* json.dumps of a result dict, as far as the caller branches on it
Document(success, error) == [success |-> success, error |-> error]

ArgCounts == {2, 3, 4}

MInit ==
    /\ script \in {"activity", "wellness"}
    /\ mcp_src_exists \in BOOLEAN
    /\ argc \in ArgCounts
    /\ m_pc = "start" /\ stdout = <<>> /\ stderr = <<>> /\ exit_code = -1

\* lines 24-34 of either script
M_CheckSource ==
    /\ m_pc = "start"
    /\ IF mcp_src_exists
       THEN m_pc' = "main" /\ UNCHANGED <<stderr, exit_code>>
       ELSE /\ stderr' = Append(stderr, Document(FALSE, "MCP_SOURCE_NOT_FOUND"))
            /\ exit_code' = 1
            /\ m_pc' = "exited"
    /\ UNCHANGED <<script, mcp_src_exists, argc, stdout, edvars, avars, wvars, fvars>>

\* lines 261-267 (wellness 283-289): the argument count
M_InvalidArgs ==
    /\ m_pc = "main" /\ argc # 3
    /\ stdout' = Append(stdout, Document(FALSE, "INVALID_ARGS"))
    /\ exit_code' = 1
    /\ m_pc' = "exited"
    /\ UNCHANGED <<script, mcp_src_exists, argc, stderr, edvars, avars, wvars, fvars>>

\* lines 269-272: sync_activities_by_date_range(start_date, end_date) is entered
M_CallActivities ==
    /\ m_pc = "main" /\ argc = 3 /\ script = "activity"
    /\ a_pc' = "init"
    /\ m_pc' = "call"
    /\ UNCHANGED <<activities, a_i, a_resp, formatted_activities, a_result, a_trace, a_raised>>
    /\ UNCHANGED <<script, mcp_src_exists, argc, stdout, stderr, exit_code, edvars, wvars, fvars>>

\* wellness 291-294: sync_wellness_by_date_range(start_date, end_date) is entered
M_CallWellness ==
    /\ m_pc = "main" /\ argc = 3 /\ script = "wellness"
    /\ start_date' \in StartDates
    /\ end_date' \in EndDatesFor(start_date')
    /\ w_pc' = "init" /\ entry' = NoEntry /\ w_resp' = Answered(HrvNone)
    /\ UNCHANGED <<dates, w_i, rhr, w_failed, wellness_data, w_result, w_trace, w_raised>>
    /\ m_pc' = "call"
    /\ UNCHANGED <<script, mcp_src_exists, argc, stdout, stderr, exit_code, edvars, avars, fvars>>

\* lines 272-275 (wellness 294-297): print(json.dumps(result)); sys.exit(0 if result['success'] else 1)
M_PrintResult ==
    /\ m_pc = "call"
    /\ \/ /\ script = "activity" /\ a_pc = "done"
          /\ stdout' = Append(stdout, Document(a_result.success, a_result.error))
          /\ exit_code' = IF a_result.success THEN 0 ELSE 1
       \/ /\ script = "wellness" /\ w_pc = "done"
          /\ stdout' = Append(stdout, Document(w_result.success, w_result.error))
          /\ exit_code' = IF w_result.success THEN 0 ELSE 1
    /\ m_pc' = "exited"
    /\ UNCHANGED <<script, mcp_src_exists, argc, stderr, edvars, avars, wvars, fvars>>

NextM == M_CheckSource \/ M_InvalidArgs \/ M_CallActivities \/ M_CallWellness \/ M_PrintResult
            \/ NextA \/ NextW

InitM == MInit /\ EDIdle /\ AIdle /\ WIdle /\ FIdle

SpecM == InitM /\ [][NextM]_vars

(***************************************************************************)
(* get_activity_fit_stream (tools/raw_data.py 11-69).                      *)
(*   f_pc    "init"     before load_config / init_garmin_client            *)
(*           "download" before download_activity and ZipFile               *)
(*           "select"   inside the with block, before the search for .fit  *)
(*           "parse"    in the loop over the record messages               *)
(*           "done"     returned, f_response is the returned response      *)
(*   archive the downloaded bytes: a ZIP archive with its entries in the   *)
(*           order of namelist(), or bytes that ZipFile rejects            *)
(*   fit_name, fit_content  fit_files[0] and what z.read gave for it       *)
(*   messages the record messages the decoder has yielded so far           *)
(*   records  the points appended so far                                   *)
(* A file name is the sequence of its characters.  A field of a message is *)
(* a value [kind, v]: a number, None, a datetime (it has isoformat) or the *)
(* ISO string made of one.  A message and a point are functions from the   *)
(* names of the fields they hold.                                          *)
(***************************************************************************)
\* str.lower() on the characters that occur in the names
LowerChar(c) ==
    CASE c = "F" -> "f" [] c = "I" -> "i" [] c = "T" -> "t" [] c = "B" -> "b" [] OTHER -> c

lower(f) == [k \in DOMAIN f |-> LowerChar(f[k])]

endswith(f, suffix) ==
    /\ Len(f) >= Len(suffix)
    /\ SubSeq(f, Len(f) - Len(suffix) + 1, Len(f)) = suffix

\* as IsFitName, comparing the name as it is spelled
IsFitName_case_sensitive(f) == endswith(f, <<".", "f", "i", "t">>)

\* line 38: f.lower().endswith('.fit')
IsFitName(f) == endswith(lower(f), <<".", "f", "i", "t">>)

\* line 38: the names of namelist() that pass, in its order
fit_files(entries) ==
    LET names == [k \in DOMAIN entries |-> entries[k].name]
    IN SelectSeq(names, IsFitName)

\* line 42: z.read(name), the content stored under a name
read(entries, name) ==
    entries[CHOOSE k \in DOMAIN entries : entries[k].name = name].content

FileNames ==
    { <<"a", ".", "f", "i", "t">>, <<"B", ".", "F", "I", "T">>,
      <<"n", ".", "t", "x", "t">>, <<"f", "i", "t">> }

\* an entry holds a decodable recording or bytes the decoder rejects
FileContents == {"recording", "corrupt"}

Entries == [name : FileNames, content : FileContents]

\* the archives: at most MaxEntries entries, no name twice
Archives ==
    {e \in UNION {[1..n -> Entries] : n \in 0..MaxEntries} :
        \A j, k \in DOMAIN e : e[j].name = e[k].name => j = k}

Number(v) == [kind |-> "num", v |-> v]
NoneValue == [kind |-> "none", v |-> 0]
Datetime(v) == [kind |-> "datetime", v |-> v]

\* line 55: hasattr(data.value, 'isoformat')
hasattr_isoformat(value) == value.kind = "datetime"

\* line 56: data.value.isoformat()
isoformat(value) == [kind |-> "iso", v |-> value.v]

\* line 52: the metrics of interest
TrackedFields == {"timestamp", "heart_rate", "cadence", "speed", "distance"}

\* the record messages a recording may hold: no field at all, an untracked field only, a single
\* tracked field, zero readings, an invalid (None) reading, every field at once, a raw timestamp
FitRecords ==
    { <<>>,
      [n \in {"temperature"} |-> Number(21)],
      [n \in {"heart_rate"} |-> Number(61)],
      [n \in {"heart_rate", "cadence"} |-> Number(0)],
      [n \in {"heart_rate"} |-> NoneValue],
      [n \in TrackedFields \cup {"temperature"} |->
           IF n = "timestamp" THEN Datetime(1000) ELSE Number(61)],
      [n \in {"timestamp", "distance"} |-> Number(1000)] }

\* as point_of, with the tracked fields the record lacks set to zero
point_of_zero_filled(record) ==
    [n \in TrackedFields |->
        IF n \notin DOMAIN record THEN Number(0)
        ELSE IF n = "timestamp" /\ hasattr_isoformat(record[n]) THEN isoformat(record[n])
        ELSE record[n]]

\* lines 49-58: the point built from one record message
point_of(record) ==
    [n \in DOMAIN record \cap TrackedFields |->
        IF n = "timestamp" /\ hasattr_isoformat(record[n]) THEN isoformat(record[n])
        ELSE record[n]]

\* ResponseBuilder.build_error_response(message)
ErrorResponse(message) ==
    [kind |-> "error", message |-> message, stream |-> <<>>, count |-> 0, source |-> ""]

\* lines 63-66: ResponseBuilder.build_response(data = {stream, count}, metadata = {source, ...})
DataResponse(stream) ==
    [kind |-> "data", message |-> "", stream |-> stream, count |-> Len(stream),
     source |-> "raw_fit_parse"]

NoFitResponse == [kind |-> "none", message |-> "", stream |-> <<>>, count |-> 0, source |-> ""]

FInit ==
    /\ f_pc = "init" /\ archive = [ok |-> FALSE, entries |-> <<>>]
    /\ fit_name = <<>> /\ fit_content = "" /\ messages = <<>> /\ records = <<>>
    /\ f_response = NoFitResponse

\* lines 25-30 and 68-69: load_config, init_garmin_client
F_InitClient ==
    /\ f_pc = "init"
    /\ \E outcome \in {"client", "falsy"} \cup ExcKinds :
          CASE outcome = "client" -> f_pc' = "download" /\ f_response' = f_response
            [] outcome = "falsy" ->
                   /\ f_pc' = "done"
                   /\ f_response' = ErrorResponse("Failed to initialize Garmin client")
            [] OTHER ->
                   /\ f_pc' = "done"
                   /\ f_response' = ErrorResponse("Failed to process FIT file: str(e)")
    /\ UNCHANGED <<archive, fit_name, fit_content, messages, records, edvars, avars, wvars, mvars>>

\* lines 33-36 and 68-69: download_activity, then ZipFile over the bytes; bytes that are no
\* archive make ZipFile raise BadZipFile
F_Download ==
    /\ f_pc = "download"
    /\ \E outcome \in {"zip", "not_a_zip"} \cup ExcKinds :
          CASE outcome = "zip" ->
                   /\ \E e \in Archives : archive' = [ok |-> TRUE, entries |-> e]
                   /\ f_pc' = "select" /\ f_response' = f_response
            [] OTHER ->
                   /\ archive' = archive
                   /\ f_pc' = "done"
                   /\ f_response' = ErrorResponse("Failed to process FIT file: str(e)")
    /\ UNCHANGED <<fit_name, fit_content, messages, records, edvars, avars, wvars, mvars>>

\* lines 38-42: the search for the .fit entry and the read of the first one found
F_Select ==
    /\ f_pc = "select"
    /\ IF fit_files(archive.entries) = <<>>
       THEN /\ f_pc' = "done"
            /\ f_response' = ErrorResponse("No FIT file found in download")
            /\ UNCHANGED <<fit_name, fit_content>>
       ELSE /\ fit_name' = fit_files(archive.entries)[1]
            /\ fit_content' = read(archive.entries, fit_files(archive.entries)[1])
            /\ f_pc' = "parse" /\ f_response' = f_response
    /\ UNCHANGED <<archive, messages, records, edvars, avars, wvars, mvars>>

\* as F_Record, with a point left out when an equal point was appended before
F_Record_dedup ==
    /\ f_pc = "parse" /\ Len(messages) < MaxRecords
    /\ \E record \in FitRecords :
          /\ messages' = Append(messages, record)
          /\ records' = IF /\ DOMAIN point_of(record) # {}
                            /\ \A k \in DOMAIN records : records[k] # point_of(record)
                         THEN Append(records, point_of(record))
                         ELSE records
    /\ UNCHANGED <<f_pc, archive, fit_name, fit_content, f_response, edvars, avars, wvars, mvars>>

\* lines 48-61: one turn of the loop over fitfile.get_messages("record")
F_Record ==
    /\ f_pc = "parse" /\ Len(messages) < MaxRecords
    /\ \E record \in FitRecords :
          /\ messages' = Append(messages, record)
          /\ records' = IF DOMAIN point_of(record) # {}
                         THEN Append(records, point_of(record))
                         ELSE records
    /\ UNCHANGED <<f_pc, archive, fit_name, fit_content, f_response, edvars, avars, wvars, mvars>>

\* lines 45-48 and 68-69: the decoder raises on a corrupt recording, at its header or at a
\* later message
F_DecodeError ==
    /\ f_pc = "parse" /\ fit_content = "corrupt"
    /\ f_pc' = "done"
    /\ f_response' = ErrorResponse("Failed to process FIT file: str(e)")
    /\ UNCHANGED <<archive, fit_name, fit_content, messages, records, edvars, avars, wvars, mvars>>

\* lines 63-66: the messages are exhausted
F_Return ==
    /\ f_pc = "parse" /\ fit_content = "recording"
    /\ f_pc' = "done"
    /\ f_response' = DataResponse(records)
    /\ UNCHANGED <<archive, fit_name, fit_content, messages, records, edvars, avars, wvars, mvars>>

NextF == F_InitClient \/ F_Download \/ F_Select \/ F_Record \/ F_DecodeError \/ F_Return

InitF == FInit /\ EDIdle /\ AIdle /\ WIdle /\ MIdle

SpecF == InitF /\ [][NextF]_vars

(***************************************************************************)
(* What the claims about extract_duration speak of: the priority table of  *)
(* field paths, and the value stored at a path of the two payloads.        *)
(***************************************************************************)
LabelOrder ==
    << "duration", "duration.totalSeconds", "elapsedDuration", "elapsedDurationInSeconds",
       "details.duration", "details.duration.totalSeconds", "details.elapsedDuration",
       "details.elapsedDurationInSeconds", "details.summaryDTO.elapsedDuration",
       "details.summaryDTO.duration" >>
Labels == {LabelOrder[k] : k \in DOMAIN LabelOrder}
ListLabels == {LabelOrder[k] : k \in 1..4}
DetailLabels == Labels \ ListLabels

\* the value a mapping payload holds under a key; a payload that is no mapping holds none
Field(p, key) ==
    IF p.shape # "map" THEN Absent
    ELSE CASE key = "duration" -> p.duration
           [] key = "elapsedDuration" -> p.elapsedDuration
           [] key = "elapsedDurationInSeconds" -> p.elapsedDurationInSeconds

Inner(v) == IF v.t = "map" THEN totalSecondsOf(v) ELSE Absent

SummaryField(d, key) ==
    IF d.shape # "map" \/ d.summaryDTO.shape # "map" THEN Absent
    ELSE IF key = "duration" THEN d.summaryDTO.duration ELSE d.summaryDTO.elapsedDuration

\* the value stored at exactly the path a label names
StoredAt(label, a, d) ==
    CASE label = "duration" -> Field(a, "duration")
      [] label = "duration.totalSeconds" -> Inner(Field(a, "duration"))
      [] label = "elapsedDuration" -> Field(a, "elapsedDuration")
      [] label = "elapsedDurationInSeconds" -> Field(a, "elapsedDurationInSeconds")
      [] label = "details.duration" -> Field(d, "duration")
      [] label = "details.duration.totalSeconds" -> Inner(Field(d, "duration"))
      [] label = "details.elapsedDuration" -> Field(d, "elapsedDuration")
      [] label = "details.elapsedDurationInSeconds" -> Field(d, "elapsedDurationInSeconds")
      [] label = "details.summaryDTO.elapsedDuration" -> SummaryField(d, "elapsedDuration")
      [] label = "details.summaryDTO.duration" -> SummaryField(d, "duration")
      [] OTHER -> Absent

\* a candidate is valid when a strictly positive number is stored at its path
ValidAt(label, a, d) == StoredAt(label, a, d).t = "num" /\ Positive(StoredAt(label, a, d))

FirstValid(a, d) ==
    LET k == CHOOSE k \in DOMAIN LabelOrder :
                 /\ ValidAt(LabelOrder[k], a, d)
                 /\ \A j \in 1..(k - 1) : ~ValidAt(LabelOrder[j], a, d)
    IN LabelOrder[k]

SomeValid(a, d) == \E l \in Labels : ValidAt(l, a, d)
EDReturned == ed_result.state = "returned"

\* C4: extract_duration returns the first valid candidate of the priority order
\* duration(.totalSeconds), elapsedDuration, elapsedDurationInSeconds, details.duration(.totalSeconds),
\* details.elapsedDuration, details.elapsedDurationInSeconds, details.summaryDTO.elapsedDuration,
\* details.summaryDTO.duration: a valid list-level field wins over every details field, and a
\* details field supplies the value only when no list-level field is valid.
C4_PriorityOrder ==
    EDReturned =>
        /\ SomeValid(ed_activity, ed_details) =>
              /\ ed_result.source = FirstValid(ed_activity, ed_details)
              /\ ed_result.value = IntOf(StoredAt(FirstValid(ed_activity, ed_details), ed_activity, ed_details))
        /\ (\E l \in ListLabels : ValidAt(l, ed_activity, ed_details)) => ed_result.source \in ListLabels
        /\ ed_result.source \in DetailLabels => \A l \in ListLabels : ~ValidAt(l, ed_activity, ed_details)

C4_Witness ==
    /\ EDReturned
    /\ ed_activity.elapsedDurationInSeconds = Num(300, FALSE)
    /\ ed_details.duration = Num(45, FALSE)
    /\ ed_result = Returned(300, "elapsedDurationInSeconds")

\* C5: a candidate holding zero or a negative number is treated as absent: its label is never
\* returned and the cascade goes on to the candidates after it, so that
\* {duration: 0, elapsedDuration: 300} gives (300, "elapsedDuration").
C5_ZeroIsAbsent ==
    EDReturned =>
        /\ \A l \in Labels :
              (StoredAt(l, ed_activity, ed_details).t = "num" /\ ~Positive(StoredAt(l, ed_activity, ed_details)))
                  => /\ ed_result.source # l
                     /\ SomeValid(ed_activity, ed_details) => ed_result.source # "none"
        /\ (/\ ed_activity.duration = Num(0, FALSE)
            /\ ed_activity.elapsedDuration = Num(300, FALSE))
              => ed_result = Returned(300, "elapsedDuration")

C5_Witness ==
    /\ ed_activity.duration = Num(0, FALSE)
    /\ ed_activity.elapsedDuration = Num(300, FALSE)
    /\ ed_result = Returned(300, "elapsedDuration")

\* C6: extract_duration returns (0, "none") exactly when no candidate field of the activity or of
\* a supplied details object holds a strictly positive number.
C6_NoneIffNoValid ==
    EDReturned =>
        ((ed_result.value = 0 /\ ed_result.source = "none") <=> ~SomeValid(ed_activity, ed_details))

C6_Witness ==
    /\ ed_details.shape = "map"
    /\ ed_details.summaryDTO.shape = "map"
    /\ ed_details.summaryDTO.duration = Num(-1, FALSE)
    /\ ed_details.elapsedDuration = Str
    /\ ed_result = Returned(0, "none")

\* the eight candidate paths of the cascade, in priority order
BaseOrder ==
    << "duration", "elapsedDuration", "elapsedDurationInSeconds", "details.duration",
       "details.elapsedDuration", "details.elapsedDurationInSeconds",
       "details.summaryDTO.elapsedDuration", "details.summaryDTO.duration" >>
BaseLabels == {BaseOrder[k] : k \in DOMAIN BaseOrder}

\* a mapping is stored at the path and its totalSeconds is a strictly positive number
ValidInnerAt(l, a, d) ==
    /\ StoredAt(l, a, d).t = "map"
    /\ Inner(StoredAt(l, a, d)).t = "num"
    /\ Positive(Inner(StoredAt(l, a, d)))

\* C7 as stated: at every candidate path of the cascade, list-level and details-level, a mapping is
\* descended through totalSeconds, a strictly positive number found there is accepted and the source
\* is labelled '<path>.totalSeconds'.
C7_DescendsAtEveryPath ==
    EDReturned =>
        \A k \in DOMAIN BaseOrder :
            (/\ ValidInnerAt(BaseOrder[k], ed_activity, ed_details)
             /\ \A j \in 1..(k - 1) :
                    /\ ~ValidAt(BaseOrder[j], ed_activity, ed_details)
                    /\ ~ValidInnerAt(BaseOrder[j], ed_activity, ed_details))
            => ed_result = Returned(IntOf(Inner(StoredAt(BaseOrder[k], ed_activity, ed_details))),
                                    BaseOrder[k] \o ".totalSeconds")

\* C7 amended: only at the paths duration and details.duration is a mapping descended through
\* totalSeconds (a strictly positive number there is returned under '<path>.totalSeconds', for
\* details.duration when no list-level field is valid); a mapping at any other candidate path is
\* treated as absent: its path is never the source, and alone it yields (0, "none").
C7_DescendsDurationOnly ==
    EDReturned =>
        /\ ValidInnerAt("duration", ed_activity, ed_details)
              => ed_result = Returned(IntOf(Inner(ed_activity.duration)), "duration.totalSeconds")
        /\ (/\ ValidInnerAt("details.duration", ed_activity, ed_details)
            /\ \A l \in ListLabels : ~ValidAt(l, ed_activity, ed_details))
              => ed_result = Returned(IntOf(Inner(ed_details.duration)), "details.duration.totalSeconds")
        /\ \A l \in BaseLabels \ {"duration", "details.duration"} :
              StoredAt(l, ed_activity, ed_details).t = "map"
                  => /\ ed_result.source # l
                     /\ ed_result.source # l \o ".totalSeconds"
                     /\ ~SomeValid(ed_activity, ed_details) => ed_result = Returned(0, "none")

C7_Witness ==
    /\ ed_activity.duration = MapTS(Num(45, FALSE))
    /\ ed_details.duration = MapTS(Num(0, TRUE))
    /\ ed_result = Returned(45, "duration.totalSeconds")

\* C8: extract_duration is total: whatever the shapes of activity and details (mapping, None, number,
\* string, list, or a mapping whose fields hold such values), a (value, source) pair is returned and
\* no exception escapes.
C8_Total == ed_result.state # "raised"

\* C9: the source is one of the field-path labels of the cascade or "none", and a label names the
\* supplier: the returned value is the integer part of the number stored at exactly that path.
C9_SourceIsTruthful ==
    EDReturned =>
        /\ ed_result.source \in Labels \cup {"none"}
        /\ ed_result.source # "none" =>
              /\ StoredAt(ed_result.source, ed_activity, ed_details).t = "num"
              /\ ed_result.value = IntOf(StoredAt(ed_result.source, ed_activity, ed_details))

C9_Witness ==
    /\ ed_details.summaryDTO.elapsedDuration = Num(45, FALSE)
    /\ ed_details.summaryDTO.duration = Num(300, FALSE)
    /\ ed_result = Returned(45, "details.summaryDTO.elapsedDuration")

(***************************************************************************)
(* What the claims about the two drivers speak of.                         *)
(***************************************************************************)
\* the number of calendar days from start_date to end_date, both included
RangeLength ==
    IF Ordinal(end_date) < Ordinal(start_date) THEN 0
    ELSE Ordinal(end_date) - Ordinal(start_date) + 1

\* one entry per calendar day of the range, ascending, without gap or duplicate
CoversRange(data) ==
    /\ Len(data) = RangeLength
    /\ \A k \in 1..Len(data) :
          /\ ParsesAsDate(data[k].date)
          /\ Ordinal(data[k].date) = Ordinal(start_date) + k - 1

AllNone(e) ==
    e.hrv.t = "absent" /\ e.rhr.t = "absent" /\ e.sleepSeconds.t = "absent" /\ e.sleepScore.t = "absent"

\* C1: once the client is initialised, for every pair of calendar dates the wellness driver returns
\* success with exactly one entry per day of the inclusive range (none when end precedes start), in
\* ascending order without gap or duplicate, and count equal to the number of entries, whatever
\* external calls throw.
C1_OneEntryPerDay ==
    [][ (/\ w_pc \in {"dates", "day", "rhr_day", "heart_rates", "sleep"}
         /\ w_pc' = "done"
         /\ ParsesAsDate(start_date) /\ ParsesAsDate(end_date))
        => /\ w_result'.success
           /\ w_result'.has_wellness_data
           /\ CoversRange(w_result'.wellness_data)
           /\ w_result'.count = Len(w_result'.wellness_data) ]_vars

C1_Witness ==
    /\ w_pc = "done" /\ w_result.success
    /\ start_date = <<2023, 12, 31>> /\ end_date = <<2024, 1, 1>>
    /\ w_result.count = 2
    /\ w_result.wellness_data[1].date = <<2023, 12, 31>>
    /\ w_result.wellness_data[2].date = <<2024, 1, 1>>
    /\ w_failed = {"get_hrv_data", "get_rhr_day", "get_heart_rates", "get_sleep_data"}
    /\ AllNone(w_result.wellness_data[2])

\* C2: in both drivers a rate-limit or authentication rejection raised while an item is processed
\* ends the batch: no call is made for a later item and the driver returns success = false with
\* RATE_LIMITED (resp. AUTH_FAILED) and no activities / wellness_data array.
C2_RejectionAbortsBatch ==
    /\ w_resp.threw \in {"rate", "auth"} =>
          /\ w_pc = "done"
          /\ ~w_result.success /\ w_result.error = ErrorOf(w_resp.threw)
          /\ ~w_result.has_wellness_data
    /\ a_resp.threw \in {"rate", "auth"} =>
          /\ a_pc = "done"
          /\ ~a_result.success /\ a_result.error = ErrorOf(a_resp.threw)
          /\ ~a_result.has_activities

\* the calls made for item k
CallsFor(trace, k) == {trace[n].op : n \in {m \in DOMAIN trace : trace[m].item = k}} \ {"sleep"}

\* C3: when the external call of one metric of a day fails, only that metric's fields are None for
\* the day: the calls of the other metrics are still made, the values they yield are kept in the
\* emitted entry, and the days after it are still processed.
C3_FailureStaysInItsMetric ==
    (w_pc = "day" /\ w_i >= 1 /\ w_failed # {}) =>
        LET e == wellness_data[w_i] IN
        /\ {"get_hrv_data", "get_rhr_day", "get_sleep_data"} \subseteq CallsFor(w_trace, w_i)
        /\ Len(wellness_data) = w_i
        /\ "get_hrv_data" \in w_failed => e.hrv.t = "absent"
        /\ ("get_sleep_data" \notin w_failed /\ w_resp.data.shape = "map"
                /\ ~sleep_fields_raise(w_resp.data))
              => /\ e.sleepSeconds = sleep_seconds_of(w_resp.data)
                 /\ e.sleepScore = sleep_score_of(w_resp.data)

HasIdentifier(activity) == activity.shape = "map" /\ activity.activityId # 0

IdsOf(seq) == [k \in DOMAIN seq |-> seq[k].activityId]

\* C10: a successful activity sync holds exactly one record for each upstream activity that has an
\* identifier and none for one without, count is the number of records, and an activity whose detail
\* fetch threw is still emitted, with details None and the duration of its list-level item.
C10_OneRecordPerIdentifiedActivity ==
    /\ (a_pc = "done" /\ a_result.success) =>
          /\ IdsOf(a_result.activities) = IdsOf(SelectSeq(activities, HasIdentifier))
          /\ a_result.count = Len(a_result.activities)
    /\ (a_pc = "item" /\ a_i >= 1 /\ HasIdentifier(activities[a_i]) /\ a_resp.threw # "no") =>
          /\ formatted_activities # <<>>
          /\ formatted_activities[Len(formatted_activities)] =
                FormattedActivity(activities[a_i], NonePayload,
                                  extract_from_activity(activities[a_i]).value)

\* the items of the external calls and pacing sleeps of a trace never go back
InItemOrder(trace) ==
    \A m, n \in DOMAIN trace : m < n => trace[m].item <= trace[n].item

\* what get_activity left in details for the item being formatted
DetailsOf(resp) == IF resp.threw # "no" THEN NonePayload ELSE resp.data

\* C11: both drivers handle their items strictly one after another and emit them in input order:
\* the calls of an item all precede the calls of the next one, every step leaves the emitted records
\* as they are or adds one record of the item in hand at the end (so the output is an order-preserving
\* subsequence of the upstream list, resp. the date range itself), an activity whose formatting
\* completes is emitted even when a record of equal content or identifier was emitted before it, and
\* the returned array is the emitted sequence unchanged.
C11_InOrderNeverMerged ==
    [][ /\ InItemOrder(a_trace') /\ InItemOrder(w_trace')
        /\ \A n \in DOMAIN a_trace' : a_trace'[n].item <= a_i' + 1
        /\ \A n \in DOMAIN w_trace' : w_trace'[n].item <= w_i' + 1
        /\ \/ formatted_activities' = formatted_activities
           \/ /\ Len(formatted_activities') = Len(formatted_activities) + 1
              /\ SubSeq(formatted_activities', 1, Len(formatted_activities)) = formatted_activities
              /\ formatted_activities'[Len(formatted_activities')].activityId
                     = activities[a_i + 1].activityId
              /\ a_i' = a_i + 1
        /\ (/\ a_pc = "format" /\ a_pc' = "item"
            /\ extract_duration(activities[a_i + 1], DetailsOf(a_resp)).state # "raised")
           => formatted_activities' =
                 Append(formatted_activities,
                        FormattedActivity(activities[a_i + 1], DetailsOf(a_resp),
                                          extract_duration(activities[a_i + 1], DetailsOf(a_resp)).value))
        /\ \/ wellness_data' = wellness_data
           \/ /\ Len(wellness_data') = Len(wellness_data) + 1
              /\ SubSeq(wellness_data', 1, Len(wellness_data)) = wellness_data
              /\ w_i' = w_i + 1 /\ Len(wellness_data') = w_i'
              /\ wellness_data'[w_i'].date = dates[w_i']
        /\ (a_pc' = "done" /\ a_result'.success) => a_result'.activities = formatted_activities'
        /\ (w_pc' = "done" /\ w_result'.success) => w_result'.wellness_data = wellness_data'
      ]_vars

\* two upstream activities of equal content, both emitted, in a two-item batch
C11_Witness ==
    /\ a_pc = "done" /\ a_result.success
    /\ Len(activities) = 2 /\ activities[1] = activities[2] /\ HasIdentifier(activities[1])
    /\ a_result.count = 2
    /\ a_result.activities[1].activityId = a_result.activities[2].activityId
    /\ a_trace[Len(a_trace)] = Event("get_activity", 2, activities[2].activityId)

\* the positions of the pacing sleeps made for item k
SleepsOf(trace, k) == {n \in DOMAIN trace : trace[n].op = "sleep" /\ trace[n].item = k}

AllSleeps(trace) == {n \in DOMAIN trace : trace[n].op = "sleep"}

\* every sleep of the trace is directly followed by the call named first, made for the same item,
\* and is the only sleep of that item: none falls between two calls of one item
SleepsOpenItems(trace, first) ==
    \A n \in AllSleeps(trace) :
        /\ n + 1 \in DOMAIN trace
        /\ trace[n + 1].op = first /\ trace[n + 1].item = trace[n].item
        /\ SleepsOf(trace, trace[n].item) = {n}

\* C12 as stated: in both drivers no delay precedes the first item, exactly one delay precedes every
\* later item of the input sequence, none falls between two calls of one item, and a batch of N
\* items has incurred exactly N-1 delays when it returns.
C12_OneDelayPerLaterItem ==
    /\ SleepsOpenItems(a_trace, "get_activity") /\ SleepsOpenItems(w_trace, "get_hrv_data")
    /\ \A k \in 1..a_i : Cardinality(SleepsOf(a_trace, k)) = (IF k >= 2 THEN 1 ELSE 0)
    /\ \A k \in 1..w_i : Cardinality(SleepsOf(w_trace, k)) = (IF k >= 2 THEN 1 ELSE 0)
    /\ (a_pc = "done" /\ a_result.success /\ activities # <<>>)
          => Cardinality(AllSleeps(a_trace)) = Len(activities) - 1
    /\ (w_pc = "done" /\ w_result.success /\ dates # <<>>)
          => Cardinality(AllSleeps(w_trace)) = Len(dates) - 1

\* C12, amended: the wellness driver is as stated (one delay before every day after the first, N-1
\* for N days).  In the activity driver the delay goes with the list position of a fetched item:
\* exactly one delay directly precedes the get_activity call of every activity that has an identifier
\* and is not first in the upstream list, an item that is skipped incurs none, and so a batch of N
\* items incurs one delay per identified item after the first position, at most N-1.  In neither
\* driver does a delay fall between two calls of one item.
C12_DelayBeforeLaterFetch ==
    /\ SleepsOpenItems(a_trace, "get_activity") /\ SleepsOpenItems(w_trace, "get_hrv_data")
    /\ \A k \in 1..a_i :
          Cardinality(SleepsOf(a_trace, k)) = (IF k >= 2 /\ HasIdentifier(activities[k]) THEN 1 ELSE 0)
    /\ \A k \in 1..w_i : Cardinality(SleepsOf(w_trace, k)) = (IF k >= 2 THEN 1 ELSE 0)
    /\ (a_pc = "done" /\ a_result.success)
          => /\ Cardinality(AllSleeps(a_trace))
                   = Cardinality({k \in 2..Len(activities) : HasIdentifier(activities[k])})
             /\ activities # <<>> => Cardinality(AllSleeps(a_trace)) <= Len(activities) - 1
    /\ (w_pc = "done" /\ w_result.success /\ dates # <<>>)
          => Cardinality(AllSleeps(w_trace)) = Len(dates) - 1

\* a batch of two activities, the second without identifier: the batch returns without any delay
C12_Witness ==
    /\ a_pc = "done" /\ a_result.success
    /\ Len(activities) = 2 /\ HasIdentifier(activities[1]) /\ ~HasIdentifier(activities[2])
    /\ AllSleeps(a_trace) = {}
    /\ a_result.count = 1

(***************************************************************************)
(* What the claims about a run of a script speak of.                       *)
(***************************************************************************)
\* C13: every run of a sync script, on every path (success, batch failure, wrong argument count,
\* MCP source directory missing), has written exactly one JSON document to stdout when it exits,
\* and exits with code 0 if that document has success = true and with 1 otherwise.
C13_OneDocumentOnStdout ==
    /\ Len(stdout) <= 1
    /\ m_pc = "exited" =>
          /\ Len(stdout) = 1
          /\ exit_code = (IF stdout[1].success THEN 0 ELSE 1)

\* the failure a driver must report: raised is the exception that ended the batch, "no" when
\* init_garmin_client gave no client
ClassifiedAs(raised, result) ==
    /\ ~result.success
    /\ result.error \in {"AUTH_FAILED", "RATE_LIMITED", "API_ERROR", "MCP_SOURCE_NOT_FOUND",
                          "INVALID_ARGS", "UNKNOWN_ERROR"}
    /\ raised \in {"no", "auth"} => result.error = "AUTH_FAILED"
    /\ raised = "rate" => result.error = "RATE_LIMITED"
    /\ raised = "api" => result.error = "API_ERROR" /\ result.message = "str(e)"
    /\ raised = "other" => result.error = "UNKNOWN_ERROR"
    /\ result.message # ""
    /\ ~result.has_count

\* C14: a failure before the per-item processing is classified by its kind: no client or an
\* authentication rejection gives AUTH_FAILED, a rate-limit rejection (of the activity-list call
\* too) RATE_LIMITED, a classified API fault API_ERROR with the fault's own message, any other
\* exception UNKNOWN_ERROR; the result then has success = false, a message, no activities /
\* wellness_data / count, and no per-item external call has been made.
C14_FailureClassified ==
    /\ a_raised # "no" => a_pc = "done" /\ ~a_result.success
    /\ w_raised # "no" => w_pc = "done" /\ ~w_result.success
    /\ (a_pc = "done" /\ ~a_result.success) =>
          /\ ClassifiedAs(a_raised, a_result)
          /\ ~a_result.has_activities
          /\ \A n \in DOMAIN a_trace : a_trace[n].op = "get_activities_by_date"
          /\ formatted_activities = <<>>
    /\ (w_pc = "done" /\ ~w_result.success) =>
          /\ ClassifiedAs(w_raised, w_result)
          /\ ~w_result.has_wellness_data
          /\ w_trace = <<>>

\* the activity-list call was rejected with a classified API fault
C14_Witness ==
    /\ a_pc = "done" /\ a_raised = "api"
    /\ a_result.error = "API_ERROR" /\ a_result.message = "str(e)"
    /\ a_trace = <<Event("get_activities_by_date", 0, 0)>>

(***************************************************************************)
(* What the claims about get_activity_fit_stream speak of.                 *)
(***************************************************************************)
\* the five fields a point may hold
PointFields == {"timestamp", "heart_rate", "cadence", "speed", "distance"}

HasPointField(record) == DOMAIN record \cap PointFields # {}

\* the value of a field as a point shows it: a datetime as its ISO string, any other value as it is
Shown(value) == IF value.kind = "datetime" THEN [kind |-> "iso", v |-> value.v] ELSE value

\* the point holds exactly the tracked fields of the record, each with the record's value
PointMatches(point, record) ==
    /\ DOMAIN point = DOMAIN record \cap PointFields
    /\ \A n \in DOMAIN point : point[n] = Shown(record[n])

\* C15: for every record message of the decoded stream a point is emitted if and only if the record
\* has at least one of timestamp, heart_rate, cadence, speed, distance; the point holds exactly the
\* tracked fields present in the record with their values and no other field, and a tracked field
\* the record lacks is absent from the point, never set to zero.
C15_PointPerTrackedRecord ==
    [][ Len(messages') = Len(messages) + 1 =>
          LET record == messages'[Len(messages')] IN
          IF HasPointField(record)
          THEN /\ Len(records') = Len(records) + 1
               /\ SubSeq(records', 1, Len(records)) = records
               /\ PointMatches(records'[Len(records')], record)
          ELSE records' = records ]_vars

\* a record with an untracked field only is dropped, one with heart_rate only gives a point that
\* holds heart_rate and nothing else
C15_Witness ==
    /\ f_pc = "done" /\ f_response.kind = "data"
    /\ Len(messages) = 2
    /\ DOMAIN messages[1] = {"temperature"}
    /\ DOMAIN messages[2] = {"heart_rate"} /\ messages[2]["heart_rate"].kind = "num"
    /\ Len(f_response.stream) = 1
    /\ DOMAIN f_response.stream[1] = {"heart_rate"}
    /\ f_response.stream[1]["heart_rate"] = messages[2]["heart_rate"]

\* C16: the stream lists the emitted points in the physical order of the record messages: the k-th
\* point is the point of the k-th record that has a tracked field, so nothing is reordered and two
\* records with identical tracked fields both appear; the response carries that stream and a count
\* equal to its length.
C16_StreamInRecordOrder ==
    LET kept == SelectSeq(messages, HasPointField) IN
    /\ Len(records) = Len(kept)
    /\ \A k \in DOMAIN records : PointMatches(records[k], kept[k])
    /\ f_response.kind = "data" =>
          /\ f_response.stream = records
          /\ f_response.count = Len(f_response.stream)

\* two records with identical tracked fields, both in the returned stream
C16_Witness ==
    /\ f_pc = "done" /\ f_response.kind = "data"
    /\ Len(messages) = 2 /\ messages[1] = messages[2] /\ HasPointField(messages[1])
    /\ f_response.count = 2
    /\ f_response.stream[1] = f_response.stream[2]

\* the name ends in .fit, whatever the case of its letters
EndsInFitAnyCase(name) ==
    /\ Len(name) >= 4
    /\ name[Len(name) - 3] = "."
    /\ name[Len(name) - 2] \in {"f", "F"}
    /\ name[Len(name) - 1] \in {"i", "I"}
    /\ name[Len(name)] \in {"t", "T"}

FitEntries(entries) == {k \in DOMAIN entries : EndsInFitAnyCase(entries[k].name)}

FirstFitEntry(entries) ==
    entries[CHOOSE k \in FitEntries(entries) : \A j \in FitEntries(entries) : k <= j]

\* C17: the entry decoded is the first archive entry whose name ends in .fit, compared without
\* regard to case; when no entry matches, or the archive or the recording is corrupt, the call
\* returns an error response, returns nothing decoded, and no exception escapes: every return is a
\* response.
C17_FirstFitOrErrorResponse ==
    /\ f_pc = "done" => f_response.kind \in {"error", "data"}
    /\ (f_pc \in {"parse", "done"} /\ archive.ok /\ FitEntries(archive.entries) # {}) =>
          /\ fit_name = FirstFitEntry(archive.entries).name
          /\ fit_content = FirstFitEntry(archive.entries).content
    /\ (f_pc = "done" /\ (~archive.ok \/ FitEntries(archive.entries) = {})) =>
          /\ f_response.kind = "error"
          /\ messages = <<>> /\ records = <<>>
    /\ (f_pc = "done" /\ fit_content = "corrupt") =>
          /\ f_response.kind = "error" /\ f_response.stream = <<>>
    /\ f_response.kind = "data" =>
          /\ archive.ok /\ FitEntries(archive.entries) # {}
          /\ FirstFitEntry(archive.entries).content = "recording"

\* an upper-case .FIT entry after an entry of another kind is the one decoded
C17_Witness ==
    /\ f_pc = "done" /\ f_response.kind = "data"
    /\ Len(archive.entries) = 2
    /\ archive.entries[1].name = <<"n", ".", "t", "x", "t">>
    /\ archive.entries[2].name = <<"B", ".", "F", "I", "T">>
    /\ fit_name = <<"B", ".", "F", "I", "T">>
    /\ f_response.count >= 1

(***************************************************************************)
(* What the claims about the calls and the entries of a day speak of.      *)
(***************************************************************************)
\* the external calls made for day k, in the order they were made
RECURSIVE CallSeq(_, _)
CallSeq(trace, k) ==
    IF trace = <<>> THEN <<>>
    ELSE IF trace[1].item = k /\ trace[1].op # "sleep"
         THEN <<trace[1].op>> \o CallSeq(Tail(trace), k)
         ELSE CallSeq(Tail(trace), k)

\* get_rhr_day gave a usable RHR: a number, or a mapping holding a number under one of its keys
UsableRhr(resp) ==
    /\ resp.threw = "no"
    /\ \/ resp.data.shape = "num"
       \/ /\ resp.data.shape = "map"
          /\ \E v \in {resp.data.restingHeartRate, resp.data.rhr, resp.data.last} :
                v.t = "num" /\ NonZero(v)

\* C18: for each day the wellness driver calls get_hrv_data, get_rhr_day, get_heart_rates and
\* get_sleep_data in this order, get_heart_rates only if get_rhr_day yielded no RHR (it threw or
\* returned nothing usable) and the three others exactly once; the RHR of the sleep payload is used
\* only if both earlier methods yielded none, so an RHR obtained earlier is never overwritten.
C18_CallOrderAndRhrFallback ==
    [][ /\ \A k \in 1..w_i' :
              CallSeq(w_trace', k) \in
                  { <<"get_hrv_data", "get_rhr_day", "get_sleep_data">>,
                    <<"get_hrv_data", "get_rhr_day", "get_heart_rates", "get_sleep_data">> }
        /\ (w_pc' \in {"rhr_day", "heart_rates", "sleep"}) =>
              CallSeq(w_trace', w_i' + 1) =
                  CASE w_pc' = "rhr_day" -> <<"get_hrv_data">>
                    [] w_pc' = "heart_rates" -> <<"get_hrv_data", "get_rhr_day">>
                    [] w_pc = "rhr_day" -> <<"get_hrv_data", "get_rhr_day">>
                    [] OTHER -> <<"get_hrv_data", "get_rhr_day", "get_heart_rates">>
        /\ (w_pc = "rhr_day" /\ w_pc' = "heart_rates") => ~UsableRhr(w_resp')
        /\ (w_pc = "rhr_day" /\ UsableRhr(w_resp')) =>
              w_pc' = "sleep" /\ entry'.rhr.t = "num"
        /\ (w_pc = "sleep" /\ w_pc' = "day" /\ entry.rhr.t # "absent") =>
              /\ entry'.rhr = entry.rhr
              /\ wellness_data'[w_i'].rhr = entry.rhr
        /\ (w_pc = "sleep" /\ w_pc' = "day" /\ wellness_data'[w_i'].rhr # entry.rhr) =>
              /\ entry.rhr.t = "absent"
              /\ wellness_data'[w_i'].rhr = w_resp'.data.restingHeartRate
      ]_vars

\* get_rhr_day gave 50, get_heart_rates was not called, and the 52 of the sleep payload was not used
C18_Witness ==
    /\ w_pc = "day" /\ w_i = 1
    /\ CallSeq(w_trace, 1) = <<"get_hrv_data", "get_rhr_day", "get_sleep_data">>
    /\ w_resp.threw = "no" /\ w_resp.data.restingHeartRate = Num(52, FALSE)
    /\ wellness_data[1].rhr = Num(50, FALSE)
    /\ wellness_data[1].sleepSeconds = Num(28800, FALSE)

AllMethods == {"get_hrv_data", "get_rhr_day", "get_heart_rates", "get_sleep_data"}

\* the entry carries its four metric keys
HasAllKeys(e) ==
    e.hrv.t # "unset" /\ e.rhr.t # "unset" /\ e.sleepSeconds.t # "unset" /\ e.sleepScore.t # "unset"

\* C19: every entry the wellness driver emits carries the keys date, hrv, rhr, sleepSeconds and
\* sleepScore on every path; a day for which every fetch failed is emitted as an entry whose four
\* metric fields are all None and whose date is the day's; entries_with_data never exceeds count.
C19_EntriesComplete ==
    /\ \A k \in DOMAIN wellness_data :
          HasAllKeys(wellness_data[k]) /\ wellness_data[k].date = dates[k]
    /\ (w_pc = "day" /\ w_i >= 1 /\ w_failed = AllMethods) =>
          /\ Len(wellness_data) = w_i
          /\ AllNone(wellness_data[w_i])
          /\ wellness_data[w_i].date = dates[w_i]
    /\ (w_pc = "done" /\ w_result.success) =>
          /\ \A k \in DOMAIN w_result.wellness_data : HasAllKeys(w_result.wellness_data[k])
          /\ w_result.entries_with_data <= w_result.count

\* a first day with data, then a day on which all four calls raised
C19_Witness ==
    /\ w_pc = "day" /\ w_i = 2 /\ w_failed = AllMethods
    /\ HasData(wellness_data[1])
    /\ AllNone(wellness_data[2]) /\ wellness_data[2].date = dates[2]

\* C20: when get_hrv_data returns a plain number instead of a mapping, that number is the day's hrv.
C20_PlainNumberIsHrv ==
    (w_pc = "rhr_day" /\ w_resp.threw = "no" /\ w_resp.data.shape = "num")
        => entry.hrv = w_resp.data.number

(***************************************************************************)
(* What the claim about the returned duration speaks of.                   *)
(***************************************************************************)
\* C21: whenever extract_duration returns a source other than "none" the returned duration is a
\* strictly positive integer: the value is 0 if and only if the source is "none", also for an
\* accepted fractional value between 0 and 1, which int() truncates.
C21_PositiveUnlessNone ==
    EDReturned =>
        /\ ed_result.source # "none" => ed_result.value > 0
        /\ ed_result.value = 0 <=> ed_result.source = "none"

(***************************************************************************)
(* What the claim about the calls of the activity driver speaks of.        *)
(***************************************************************************)
\* the external calls of a trace, the pacing sleeps left out
RECURSIVE ExternalCalls(_)
ExternalCalls(trace) ==
    IF trace = <<>> THEN <<>>
    ELSE IF trace[1].op = "sleep" THEN ExternalCalls(Tail(trace))
         ELSE <<trace[1]>> \o ExternalCalls(Tail(trace))

\* one get_activity call for each of the first n upstream items that has an identifier, in order
RECURSIVE DetailCallsUpTo(_)
DetailCallsUpTo(n) ==
    IF n = 0 THEN <<>>
    ELSE DetailCallsUpTo(n - 1) \o
         (IF n <= Len(activities) /\ HasIdentifier(activities[n])
          THEN <<Event("get_activity", n, activities[n].activityId)>>
          ELSE <<>>)

\* the items for which get_activity has been called: those handled, and the one being formatted
ItemsReached == IF a_pc = "format" THEN a_i + 1 ELSE a_i

\* C22: the activity driver makes one get_activities_by_date call per batch and then exactly one
\* get_activity call for each upstream activity that has an identifier, in list order, and none for
\* an activity without one; the detail call is made whether or not the list-level item already
\* gives the duration, and a detail call that failed is not made again.
C22_OneDetailCallPerActivity ==
    /\ a_pc \in {"idle", "init", "list"} => ExternalCalls(a_trace) = <<>>
    /\ (a_pc = "done" /\ a_raised = "no" /\ ~a_result.success) => ExternalCalls(a_trace) = <<>>
    /\ (a_pc = "done" /\ a_raised # "no") =>
          ExternalCalls(a_trace) \in {<<>>, <<Event("get_activities_by_date", 0, 0)>>}
    /\ a_pc \in {"item", "format"} =>
          ExternalCalls(a_trace) =
              <<Event("get_activities_by_date", 0, 0)>> \o DetailCallsUpTo(ItemsReached)
    /\ (a_pc = "done" /\ a_result.success) =>
          ExternalCalls(a_trace) =
              <<Event("get_activities_by_date", 0, 0)>> \o DetailCallsUpTo(Len(activities))

\* the first activity gives its duration at list level and is fetched all the same; the detail call
\* of the second raised and was made once
C22_Witness ==
    /\ a_pc = "item" /\ a_i = 2 /\ Len(activities) = 2
    /\ activities[1] = ListItem(7, Num(45, FALSE)) /\ activities[2] = ListItem(8, Absent)
    /\ a_resp.threw # "no"
    /\ ExternalCalls(a_trace) =
           << Event("get_activities_by_date", 0, 0), Event("get_activity", 1, 7),
              Event("get_activity", 2, 8) >>
    /\ Len(formatted_activities) = 2

=============================================================================
